---------------------------- MODULE Spec2Model ----------------------------
(***************************************************************************)
(* A model of final_project_min.py (Hacktiv8 EduMentor): the helper        *)
(* functions ask_model, gen_mcq, build_kb_text and make_csv_bytes, and the *)
(* Streamlit script that keeps the session (messages, kb_text, quiz,       *)
(* quiz_answers, last_quiz_result) and is re-run once per user action.     *)
(*                                                                         *)
(* Text is modelled in two ways.  A model response is a sequence of        *)
(* tokens, each standing for a piece of the response text: a bracket, a    *)
(* comma, a blank, a character of prose, or a complete JSON value.  Every  *)
(* other string is a run-length string: a sequence of runs [c, n], n       *)
(* copies of the character c, so that a text of 22,000 characters is one   *)
(* run.                                                                    *)
(***************************************************************************)
EXTENDS Integers, Sequences, FiniteSets, TLC

VARIABLES
    \* ---- ask_model / gen_mcq ----
    outcome,      \* what the external generate_content call does
    gpc,          \* "emit": the outcome is being produced; "done": gen_mcq returned
    asked,        \* what ask_model gave its caller
    mcqN,         \* the n gen_mcq was called with
    mcq,          \* what gen_mcq gave its caller
    \* ---- build_kb_text ----
    files,        \* the uploaded files, in upload order
    pasted,       \* the text of the paste area
    pdfOk,        \* _PDF_OK: PyPDF2 could be imported
    kbpc,         \* "input": files and text are being given; "done": build_kb_text returned
    kbOut,        \* what build_kb_text returned
    \* ---- make_csv_bytes ----
    rows,         \* the rows given to make_csv_bytes
    csvpc,        \* "input": rows are being added; "done": make_csv_bytes returned
    csvOut,       \* what make_csv_bytes returned
    \* ---- the Streamlit session ----
    messages,          \* st.session_state.messages
    kb_text,           \* st.session_state.kb_text
    quiz,              \* st.session_state.quiz
    quiz_answers,      \* st.session_state.quiz_answers, key mcq_i at index i
    last_quiz_result,  \* st.session_state["last_quiz_result"], PyNone when the key is absent
    api_key,           \* the sidebar's API key field is filled in
    radios,            \* the radio widgets drawn by the last run: their options and selection
    up,                \* the file in the "Import Memory+KB" uploader, NoFile when empty
    dump,              \* the dict the last run gave the JSON download button
    saved,             \* the JSON file the user downloaded, NoFile when none
    exported,          \* the dump that file was written from
    importMsg,         \* what the import block of the last run showed
    run                \* the user action behind the last run

genVars == <<outcome, gpc, asked, mcqN, mcq>>
kbVars == <<files, pasted, pdfOk, kbpc, kbOut>>
csvVars == <<rows, csvpc, csvOut>>
sessVars == <<messages, kb_text, quiz, quiz_answers, last_quiz_result, api_key, radios,
              up, dump, saved, exported, importMsg, run>>

vars == <<outcome, gpc, asked, mcqN, mcq, files, pasted, pdfOk, kbpc, kbOut,
          rows, csvpc, csvOut,
          messages, kb_text, quiz, quiz_answers, last_quiz_result, api_key, radios,
          up, dump, saved, exported, importMsg, run>>

-----------------------------------------------------------------------------
(* Bounds *)

MaxRespLen == 5
MaxErrLen == 3
MaxN == 2
MaxFiles == 2
MaxRows == 2
MaxRuns == 2
MaxRunLen == 2
MaxMsgs == 2
MaxQuiz == 2

-----------------------------------------------------------------------------
(* Python helpers *)

Min(a, b) == IF a < b THEN a ELSE b
Max(a, b) == IF a > b THEN a ELSE b

\* s[start:end] of a Python sequence s, with 0-based start and end; a negative
\* index counts from the end, and both are clamped to 0..len(s).
PySlice(s, start, end) ==
    LET n  == Len(s)
        lo == IF start < 0 THEN Max(n + start, 0) ELSE Min(start, n)
        hi == IF end < 0 THEN Max(n + end, 0) ELSE Min(end, n)
    IN  IF lo >= hi THEN <<>> ELSE SubSeq(s, lo + 1, hi)

\* s.find(c): the 0-based index of the first c, -1 when there is none.
PyFind(s, c) ==
    IF \E i \in 1..Len(s) : s[i] = c
    THEN (CHOOSE i \in 1..Len(s) : s[i] = c /\ \A j \in 1..(i - 1) : s[j] # c) - 1
    ELSE -1

\* s.rfind(c): the 0-based index of the last c, -1 when there is none.
PyRFind(s, c) ==
    IF \E i \in 1..Len(s) : s[i] = c
    THEN (CHOOSE i \in 1..Len(s) : s[i] = c /\ \A j \in (i + 1)..Len(s) : s[j] # c) - 1
    ELSE -1

\* What a Python call gives its caller: a value, or an exception.
Returned(v) == [raised |-> FALSE, val |-> v]
Raised(v) == [raised |-> TRUE, val |-> v]

-----------------------------------------------------------------------------
(* Model responses as token sequences *)

Blank == " "
FailPrefix == "(Gagal memanggil model: "
FailSuffix == ")"

\* Tokens that are a complete JSON value, an element of the quiz array:
\*   G  {"q":"Q1","a":["A","B","C","D"],"key":0}
\*   H  {"q":"Q2","a":["P","Q","R","S","T"],"key":"2"}
\*   K  {"q":"Q3","a":["A","B","C","D"],"key":"x"}     key is no integer
\*   S  {"q":"Q4","a":["A","B","C"],"key":1}           three options
\*   M  {"q":"Q5","a":["A","B","C","D"]}               no key
\* (an array inside the array is an element that is not an object).
ValueTokens == {"G", "H", "K", "S", "M"}

Tokens == {"[", "]", ",", Blank, "x"} \cup ValueTokens

Opts(n) == SubSeq(<<"A", "B", "C", "D", "E">>, 1, n)
OptsH == <<"P", "Q", "R", "S", "T">>

\* A Python value held under "key": an int ("int"), a string int() accepts
\* ("intstr"), a string it rejects ("badstr"), or nothing ("none").
PyVal(kind, val) == [kind |-> kind, val |-> val]

\* A parsed JSON value, as far as gen_mcq looks at it.
JsonValue(isDict, fields, q, a, key) ==
    [isDict |-> isDict, fields |-> fields, q |-> q, a |-> a, key |-> key]

NotAnObject == JsonValue(FALSE, {}, "", <<>>, PyVal("none", 0))

ValueOf(tok) ==
    CASE tok = "G" -> JsonValue(TRUE, {"q", "a", "key"}, "Q1", Opts(4), PyVal("int", 0))
      [] tok = "H" -> JsonValue(TRUE, {"q", "a", "key"}, "Q2", OptsH, PyVal("intstr", 2))
      [] tok = "K" -> JsonValue(TRUE, {"q", "a", "key"}, "Q3", Opts(4), PyVal("badstr", 0))
      [] tok = "S" -> JsonValue(TRUE, {"q", "a", "key"}, "Q4", Opts(3), PyVal("int", 1))
      [] tok = "M" -> JsonValue(TRUE, {"q", "a"}, "Q5", Opts(4), PyVal("none", 0))
      [] OTHER     -> NotAnObject

\* The first position >= i of s that holds no blank (Len(s) + 1 if none).
RECURSIVE SkipWs(_, _)
SkipWs(s, i) ==
    IF i <= Len(s) /\ s[i] = Blank THEN SkipWs(s, i + 1) ELSE i

ParseFail == [ok |-> FALSE, next |-> 0, isList |-> FALSE, val |-> NotAnObject, elems |-> <<>>]

\* The JSON value that starts at position i of s: a value token, or an array
\* "[" value "," value ... "]" with blanks allowed between tokens.  next is the
\* position after it; elems are an array's elements.
RECURSIVE ParseValue(_, _), ParseElems(_, _, _)
ParseValue(s, i) ==
    IF i > Len(s) THEN ParseFail
    ELSE IF s[i] \in ValueTokens
    THEN [ok |-> TRUE, next |-> i + 1, isList |-> FALSE, val |-> ValueOf(s[i]), elems |-> <<>>]
    ELSE IF s[i] = "["
    THEN LET j == SkipWs(s, i + 1)
         IN  IF j <= Len(s) /\ s[j] = "]"
             THEN [ok |-> TRUE, next |-> j + 1, isList |-> TRUE, val |-> NotAnObject, elems |-> <<>>]
             ELSE ParseElems(s, j, <<>>)
    ELSE ParseFail

ParseElems(s, i, acc) ==
    LET v == ParseValue(s, i)
        k == SkipWs(s, v.next)
    IN  IF ~v.ok \/ k > Len(s) THEN ParseFail
        ELSE IF s[k] = "]"
        THEN [ok |-> TRUE, next |-> k + 1, isList |-> TRUE, val |-> NotAnObject,
              elems |-> Append(acc, v.val)]
        ELSE IF s[k] = ","
        THEN ParseElems(s, SkipWs(s, k + 1), Append(acc, v.val))
        ELSE ParseFail

\* json.loads(s): the whole of s must be one JSON value, blanks around it allowed.
JsonLoads(s) ==
    LET v == ParseValue(s, SkipWs(s, 1))
    IN  IF v.ok /\ SkipWs(s, v.next) > Len(s) THEN v ELSE ParseFail

-----------------------------------------------------------------------------
(* ask_model *)

\* str.strip() on a token sequence.
RECURSIVE Strip(_)
Strip(s) ==
    IF s = <<>> THEN s
    ELSE IF Head(s) = Blank THEN Strip(Tail(s))
    ELSE IF s[Len(s)] = Blank THEN Strip(SubSeq(s, 1, Len(s) - 1))
    ELSE s

\* The try block of ask_model: generate_content raises, or gives a response
\* whose text is a string or is missing.
AskModelTry(oc) ==
    CASE oc.kind = "error" -> Raised(oc.body)
      [] oc.kind = "none"  -> Returned(<<>>)
      [] OTHER             -> Returned(Strip(oc.body))

AskModelNoHandler(oc) == AskModelTry(oc)

ask_model(oc) ==
    LET r == AskModelTry(oc)
    IN  IF r.raised THEN Returned(<<FailPrefix>> \o r.val \o <<FailSuffix>>) ELSE r

-----------------------------------------------------------------------------
(* gen_mcq *)

\* int(x): an int, or the ValueError / TypeError it raises.
PyInt(x) ==
    IF x.kind \in {"int", "intstr"} THEN Returned(PyVal("int", x.val)) ELSE Raised(<<>>)

\* The condition of the if in the loop.
Accepted(v) ==
    /\ v.isDict
    /\ {"q", "a", "key"} \subseteq v.fields
    /\ Len(v.a) >= 4

QuizItemNoSlice(v, k) == [q |-> v.q, a |-> v.a, key |-> k]

\* The dict appended to valid, k being int(item["key"]).
QuizItem(v, k) == [q |-> v.q, a |-> PySlice(v.a, 0, 4), key |-> k]

\* The for loop of gen_mcq over the parsed elements: the accepted ones in
\* order, or the exception int() raises on the first accepted element whose
\* key it cannot convert.
RECURSIVE ValidLoop(_, _)
ValidLoop(elems, valid) ==
    IF elems = <<>> THEN Returned(valid)
    ELSE LET v == Head(elems)
             k == PyInt(v.key)
         IN  IF Accepted(v)
             THEN IF k.raised
                  THEN Raised(<<>>)
                  ELSE ValidLoop(Tail(elems), Append(valid, QuizItem(v, k.val)))
             ELSE ValidLoop(Tail(elems), valid)

\* The try block of gen_mcq.
GenMcqTry(raw, n) ==
    LET start == PyFind(raw, "[")
        end   == PyRFind(raw, "]") + 1
        data  == JsonLoads(PySlice(raw, start, end))
    IN  IF ~data.ok \/ ~data.isList THEN Raised(<<>>)
        ELSE LET r == ValidLoop(data.elems, <<>>)
             IN  IF r.raised THEN r ELSE Returned(PySlice(r.val, 0, n))

GenMcqNoHandler(oc, n) ==
    LET raw == ask_model(oc)
    IN  IF raw.raised THEN raw ELSE GenMcqTry(raw.val, n)

gen_mcq(oc, n) ==
    LET raw == ask_model(oc)
    IN  IF raw.raised THEN raw
        ELSE LET r == GenMcqTry(raw.val, n)
             IN  IF r.raised THEN Returned(<<>>) ELSE r

-----------------------------------------------------------------------------
(* Specification SpecGen: one call of gen_mcq on an outcome of the external *)
(* call that is produced token by token.                                    *)

NoCall == Returned(<<>>)

InitGenIdle ==
    /\ outcome = [kind |-> "none", body |-> <<>>]
    /\ gpc = "idle"
    /\ asked = NoCall
    /\ mcqN = 0
    /\ mcq = NoCall

InitGen ==
    /\ outcome \in {[kind |-> k, body |-> <<>>] : k \in {"text", "error", "none"}}
    /\ gpc = "emit"
    /\ asked = NoCall
    /\ mcqN = 0
    /\ mcq = NoCall

\* The service adds one token to the response text, or to the error message.
Emit(t) ==
    /\ gpc = "emit"
    /\ outcome.kind # "none"
    /\ Len(outcome.body) < (IF outcome.kind = "error" THEN MaxErrLen ELSE MaxRespLen)
    /\ outcome' = [outcome EXCEPT !.body = Append(@, t)]
    /\ UNCHANGED <<gpc, asked, mcqN, mcq>>
    /\ UNCHANGED <<kbVars, csvVars, sessVars>>

CallGenMcq(n) ==
    /\ gpc = "emit"
    /\ gpc' = "done"
    /\ asked' = ask_model(outcome)
    /\ mcqN' = n
    /\ mcq' = gen_mcq(outcome, n)
    /\ UNCHANGED outcome
    /\ UNCHANGED <<kbVars, csvVars, sessVars>>


-----------------------------------------------------------------------------
(* Run-length strings: a sequence of runs [c, n], n >= 1 copies of the      *)
(* character c, no two neighbouring runs of the same character.             *)

Run(c, n) == IF n = 0 THEN <<>> ELSE <<[c |-> c, n |-> n]>>

RECURSIVE RLen(_)
RLen(s) == IF s = <<>> THEN 0 ELSE Head(s).n + RLen(Tail(s))

\* s + t
RCat(s, t) ==
    IF s = <<>> THEN t
    ELSE IF t = <<>> THEN s
    ELSE IF s[Len(s)].c = Head(t).c
    THEN SubSeq(s, 1, Len(s) - 1) \o Run(Head(t).c, s[Len(s)].n + Head(t).n) \o Tail(t)
    ELSE s \o t

\* sep.join(list)
RECURSIVE RJoin(_, _)
RJoin(sep, list) ==
    IF list = <<>> THEN <<>>
    ELSE IF Len(list) = 1 THEN list[1]
    ELSE RCat(RCat(list[1], sep), RJoin(sep, Tail(list)))

IsSpace(c) == c \in {" ", "\n"}

\* s.strip()
RECURSIVE RStrip(_)
RStrip(s) ==
    IF s = <<>> THEN s
    ELSE IF IsSpace(Head(s).c) THEN RStrip(Tail(s))
    ELSE IF IsSpace(s[Len(s)].c) THEN RStrip(SubSeq(s, 1, Len(s) - 1))
    ELSE s

\* c in s
RContains(s, c) == \E i \in 1..Len(s) : s[i].c = c

\* s[from:to], 0 <= from <= to <= len(s)
RECURSIVE RSub(_, _, _)
RSub(s, from, to) ==
    IF s = <<>> \/ to <= 0 THEN <<>>
    ELSE LET n  == Head(s).n
             lo == Max(from, 0)
             hi == Min(to, n)
         IN  RCat(IF lo < hi THEN Run(Head(s).c, hi - lo) ELSE <<>>,
                  RSub(Tail(s), from - n, to - n))

-----------------------------------------------------------------------------
(* RecursiveCharacterTextSplitter(chunk_size=1200, chunk_overlap=150), with *)
(* the library's defaults: separators "\n\n", "\n", " ", "", the separator  *)
(* kept at the head of the piece that follows it, every chunk stripped.     *)

ChunkSize == 1200
ChunkOverlap == 150
Limit == 25000

Separators == <<[c |-> "\n", n |-> 2], [c |-> "\n", n |-> 1], [c |-> " ", n |-> 1], [c |-> "", n |-> 0]>>

\* re.search(sep, text)
Found(sep, text) == \E i \in 1..Len(text) : text[i].c = sep.c /\ text[i].n >= sep.n

\* The pieces of text cut before every occurrence of sep, empty pieces left out.
RECURSIVE SplitKeep(_, _, _, _)
SplitKeep(runs, sep, cur, out) ==
    LET flush == IF cur = <<>> THEN out ELSE Append(out, cur)
    IN  IF runs = <<>> THEN flush
        ELSE LET r == Head(runs)
             IN  IF r.c = sep.c /\ r.n >= sep.n
                 THEN LET q == r.n \div sep.n
                          whole == [i \in 1..(q - 1) |-> Run(sep.c, sep.n)]
                      IN  SplitKeep(Tail(runs), sep, Run(sep.c, r.n - (q - 1) * sep.n),
                                    flush \o whole)
                 ELSE SplitKeep(Tail(runs), sep, RCat(cur, <<r>>), out)

\* _join_docs: the pieces put together and stripped; <<>> stands for None.
RECURSIVE JoinDocs(_)
JoinDocs(docs) == IF docs = <<>> THEN <<>> ELSE RCat(Head(docs), JoinDocs(Tail(docs)))

AddDoc(docs, cur) ==
    LET d == RStrip(JoinDocs(cur)) IN IF d = <<>> THEN docs ELSE Append(docs, d)

\* The while loop of _merge_splits: pieces leave the head of the current chunk
\* until at most chunk_overlap characters are left and the next piece fits.
RECURSIVE PopHead(_, _, _)
PopHead(cur, total, len) ==
    IF total > ChunkOverlap \/ (total + len > ChunkSize /\ total > 0)
    THEN PopHead(Tail(cur), total - RLen(Head(cur)), len)
    ELSE [cur |-> cur, total |-> total]

\* _merge_splits(splits, ""): the pieces packed into chunks of at most
\* chunk_size characters, a chunk starting with the tail of the one before.
RECURSIVE MergeSplits(_, _, _, _)
MergeSplits(splits, cur, total, docs) ==
    IF splits = <<>> THEN AddDoc(docs, cur)
    ELSE LET d   == Head(splits)
             len == RLen(d)
         IN  IF total + len > ChunkSize /\ cur # <<>>
             THEN LET p == PopHead(cur, total, len)
                  IN  MergeSplits(Tail(splits), Append(p.cur, d), p.total + len,
                                  AddDoc(docs, cur))
             ELSE MergeSplits(Tail(splits), Append(cur, d), total + len, docs)

\* _merge_splits of the single characters of text (the separator ""): chunks
\* of chunk_size characters that start chunk_size - chunk_overlap apart.
HardChunks(text) ==
    LET n    == RLen(text)
        step == ChunkSize - ChunkOverlap
        k    == IF n <= ChunkSize THEN 1 ELSE 1 + ((n - ChunkSize) + step - 1) \div step
        ch   == [i \in 1..k |-> RStrip(RSub(text, step * (i - 1), Min(step * (i - 1) + ChunkSize, n)))]
    IN  SelectSeq(ch, LAMBDA d : d # <<>>)

\* _split_text(text, separators[level..]).
RECURSIVE SplitText(_, _), SplitLoop(_, _, _, _)
SplitText(text, level) ==
    IF Separators[level].n = 0 THEN HardChunks(text)
    ELSE IF Found(Separators[level], text)
    THEN SplitLoop(SplitKeep(text, Separators[level], <<>>, <<>>), level + 1, <<>>, <<>>)
    ELSE SplitText(text, level + 1)

SplitLoop(splits, next, good, final) ==
    LET merged == IF good = <<>> THEN final ELSE final \o MergeSplits(good, <<>>, 0, <<>>)
    IN  IF splits = <<>> THEN merged
        ELSE LET s == Head(splits)
             IN  IF RLen(s) < ChunkSize
                 THEN SplitLoop(Tail(splits), next, Append(good, s), final)
                 ELSE SplitLoop(Tail(splits), next, <<>>, merged \o SplitText(s, next))

split_text(text) == SplitText(text, 1)

-----------------------------------------------------------------------------
(* build_kb_text *)

\* read_text_file / extract_pdf: the text a file contributes; nothing for a
\* PDF that yields no text, that cannot be parsed, or when PyPDF2 is missing.
FileTexts(f, pdf) ==
    IF f.ext \in {"txt", "md"} THEN <<f.text>>
    ELSE IF f.ext = "pdf"
    THEN LET txt == IF pdf /\ f.ok THEN f.text ELSE <<>>
         IN  IF txt # <<>> THEN <<txt>> ELSE <<>>
    ELSE <<>>

RECURSIVE AllFileTexts(_, _)
AllFileTexts(fs, pdf) ==
    IF fs = <<>> THEN <<>> ELSE FileTexts(Head(fs), pdf) \o AllFileTexts(Tail(fs), pdf)

\* The loop that keeps chunks while their lengths add up to at most limit.
RECURSIVE BudgetLoop(_, _, _)
BudgetLoop(chunks, out, size) ==
    IF chunks = <<>> THEN out
    ELSE IF size + RLen(Head(chunks)) > Limit THEN out
    ELSE BudgetLoop(Tail(chunks), Append(out, Head(chunks)), size + RLen(Head(chunks)))

build_kb_text(fs, pasted_text, pdf) ==
    LET all_texts == AllFileTexts(fs, pdf)
                     \o (IF RStrip(pasted_text) # <<>> THEN <<RStrip(pasted_text)>> ELSE <<>>)
        full == RJoin(Run("\n", 2), SelectSeq(all_texts, LAMBDA t : t # <<>>))
    IN  IF full = <<>> THEN <<>>
        ELSE RJoin(Run("\n", 2), BudgetLoop(split_text(full), <<>>, 0))

-----------------------------------------------------------------------------
(* Specification SpecKb: files are uploaded, text is pasted, and "Index ke   *)
(* KB" calls build_kb_text.                                                  *)

TextLens == {0, 500, 1000, 1300, 22000}

\* The texts given: one paragraph of l characters with no white space in it.
Para(l) == Run("a", l)

UploadableFiles ==
    {[ext |-> e, text |-> Para(l), ok |-> TRUE] : e \in {"txt", "md", "pdf"}, l \in TextLens}
    \cup {[ext |-> "pdf", text |-> Para(500), ok |-> FALSE]}

PastedTexts == {RCat(RCat(Run(" ", p), Para(l)), Run(" ", p)) : p \in {0, 1}, l \in TextLens}

InitKbIdle ==
    /\ files = <<>>
    /\ pasted = <<>>
    /\ pdfOk = TRUE
    /\ kbpc = "idle"
    /\ kbOut = <<>>

InitKb ==
    /\ files = <<>>
    /\ pasted = <<>>
    /\ pdfOk \in BOOLEAN
    /\ kbpc = "input"
    /\ kbOut = <<>>

Upload(f) ==
    /\ kbpc = "input"
    /\ Len(files) < MaxFiles
    /\ files' = Append(files, f)
    /\ UNCHANGED <<pasted, pdfOk, kbpc, kbOut>>
    /\ UNCHANGED <<genVars, csvVars, sessVars>>

Paste(t) ==
    /\ kbpc = "input"
    /\ pasted = <<>>
    /\ t # <<>>
    /\ pasted' = t
    /\ UNCHANGED <<files, pdfOk, kbpc, kbOut>>
    /\ UNCHANGED <<genVars, csvVars, sessVars>>

IndexKb ==
    /\ kbpc = "input"
    /\ kbpc' = "done"
    /\ kbOut' = build_kb_text(files, pasted, pdfOk)
    /\ UNCHANGED <<files, pasted, pdfOk>>
    /\ UNCHANGED <<genVars, csvVars, sessVars>>


-----------------------------------------------------------------------------
(* make_csv_bytes.  A row is a dict: a sequence of entries [k, v] in        *)
(* insertion order, k a field name and v the str() of the value.  A field   *)
(* name is written as one symbol of the output.                             *)

Keys(r) == [i \in 1..Len(r) |-> r[i].k]

\* r.get(c, "")
RowGet(r, c) ==
    IF \E i \in 1..Len(r) : r[i].k = c
    THEN r[CHOOSE i \in 1..Len(r) : r[i].k = c].v
    ELSE <<>>

\* v.replace(c, c + c)
RECURSIVE Doubled(_, _)
Doubled(v, c) ==
    IF v = <<>> THEN <<>>
    ELSE RCat(Run(Head(v).c, IF Head(v).c = c THEN 2 * Head(v).n ELSE Head(v).n),
              Doubled(Tail(v), c))

Quoted(v) == RCat(RCat(Run("\"", 1), v), Run("\"", 1))

\* One value of a line: quotes doubled, the whole wrapped in quotes when it
\* holds a comma or a line break.
CsvField(x) ==
    LET v == Doubled(x, "\"")
    IN  IF RContains(v, ",") \/ RContains(v, "\n") THEN Quoted(v) ELSE v

CsvLine(r, cols) == RJoin(Run(",", 1), [i \in 1..Len(cols) |-> CsvField(RowGet(r, cols[i]))])

make_csv_bytes(rs) ==
    IF rs = <<>> THEN <<>>
    ELSE LET cols   == Keys(rs[1])
             header == RJoin(Run(",", 1), [i \in 1..Len(cols) |-> Run(cols[i], 1)])
         IN  RJoin(Run("\n", 1), <<header>> \o [i \in 1..Len(rs) |-> CsvLine(rs[i], cols)])

-----------------------------------------------------------------------------
(* Specification SpecCsv: rows of the chat export (role, text) are added    *)
(* and make_csv_bytes is called.                                            *)

CsvChars == {"a", ",", "\n", "\""}

\* The run-length strings over chars of at most k runs of at most MaxRunLen.
RECURSIVE TextsOver(_, _)
TextsOver(chars, k) ==
    IF k = 0 THEN {<<>>}
    ELSE LET shorter == TextsOver(chars, k - 1)
         IN  shorter \cup
             {RCat(t, Run(c, n)) : t \in shorter, c \in chars, n \in 1..MaxRunLen}

CsvTexts == {t \in TextsOver(CsvChars, MaxRuns) : Len(t) <= MaxRuns /\ \A i \in 1..Len(t) : t[i].n <= MaxRunLen}

ChatRow(role, text) == <<[k |-> "role", v |-> Run(role, 1)], [k |-> "text", v |-> text]>>

InitCsvIdle ==
    /\ rows = <<>>
    /\ csvpc = "idle"
    /\ csvOut = <<>>

InitCsv ==
    /\ rows = <<>>
    /\ csvpc = "input"
    /\ csvOut = <<>>

AddRow(role, text) ==
    /\ csvpc = "input"
    /\ Len(rows) < MaxRows
    /\ rows' = Append(rows, ChatRow(role, text))
    /\ UNCHANGED <<csvpc, csvOut>>
    /\ UNCHANGED <<genVars, kbVars, sessVars>>

MakeCsv ==
    /\ csvpc = "input"
    /\ csvpc' = "done"
    /\ csvOut' = make_csv_bytes(rows)
    /\ UNCHANGED rows
    /\ UNCHANGED <<genVars, kbVars, sessVars>>

-----------------------------------------------------------------------------
(* JSON documents.  A document is the bytes of a file: not UTF-8, UTF-8     *)
(* text that is not JSON, or a JSON value.  A JSON value is a tree whose    *)
(* strings are string literals: the text between the quotes, with its       *)
(* escapes.                                                                 *)

PyNone == [t |-> "None"]
NoFile == [kind |-> "nofile"]

JNull == [t |-> "null"]
JNum(n) == [t |-> "number", n |-> n]
JBool(b) == [t |-> "bool", b |-> b]
JArr(items) == [t |-> "array", items |-> items]
JObj(members) == [t |-> "object", members |-> members]

\* The escape json.dumps writes for a character (ensure_ascii=False leaves
\* every other character as it is).
EscapeOf(c) ==
    CASE c = "\"" -> "\\\""
      [] c = "\n" -> "\\n"
      [] c = "\\" -> "\\\\"
      [] OTHER    -> c

UnescapeOf(e) ==
    CASE e = "\\\"" -> "\""
      [] e = "\\n"  -> "\n"
      [] e = "\\\\" -> "\\"
      [] OTHER      -> e

Escape(str) == [i \in 1..Len(str) |-> [c |-> EscapeOf(str[i].c), n |-> str[i].n]]

Unescape(lit) == [i \in 1..Len(lit) |-> [c |-> UnescapeOf(lit[i].c), n |-> lit[i].n]]

JStr(str) == [t |-> "string", lit |-> Escape(str)]

JTurn(m) == JObj([role |-> JStr(m.role), text |-> JStr(m.text)])

JRow(r) ==
    JObj([no |-> JNum(r.no), question |-> JStr(r.question), answer |-> JStr(r.answer),
          correct |-> JStr(r.correct), is_correct |-> JBool(r.is_correct)])

JResult(r) ==
    IF r = PyNone THEN JNull
    ELSE JObj([score |-> JNum(r.score),
               rows |-> JArr([i \in 1..Len(r.rows) |-> JRow(r.rows[i])]),
               created_at |-> JStr(r.created_at)])

JsonDoc(value) == [kind |-> "json", value |-> value]

JsonDumpsNoKb(d) ==
    JsonDoc(JObj([messages |-> JArr([i \in 1..Len(d.messages) |-> JTurn(d.messages[i])]),
                  last_quiz_result |-> JResult(d.last_quiz_result)]))

\* json.dumps(dump, ensure_ascii=False, indent=2).encode("utf-8")
JsonDumps(d) ==
    JsonDoc(JObj([messages |-> JArr([i \in 1..Len(d.messages) |-> JTurn(d.messages[i])]),
                  kb_text |-> JStr(d.kb_text),
                  last_quiz_result |-> JResult(d.last_quiz_result)]))

\* The Python value of a JSON value.
RECURSIVE PyOf(_)
PyOf(j) ==
    CASE j.t = "null"   -> PyNone
      [] j.t = "number" -> j.n
      [] j.t = "bool"   -> j.b
      [] j.t = "string" -> Unescape(j.lit)
      [] j.t = "array"  -> [i \in 1..Len(j.items) |-> PyOf(j.items[i])]
      [] j.t = "object" -> [k \in DOMAIN j.members |-> PyOf(j.members[k])]

\* json.loads(up.read().decode("utf-8")): the value, whether it is a dict, or
\* the exception of decode or loads.
LoadsDoc(doc) ==
    IF doc.kind = "json"
    THEN Returned([isDict |-> doc.value.t = "object", v |-> PyOf(doc.value)])
    ELSE Raised(<<>>)

\* data.get(k, default)
DictGet(d, k, default) == IF k \in DOMAIN d THEN d[k] ELSE default

\* bool(v) of None or a dict
Truthy(v) == v # PyNone /\ DOMAIN v # {}

-----------------------------------------------------------------------------
(* The script.  One run is one pass from the top of the script to its end,  *)
(* on the session state s = [messages, kb_text, quiz, quiz_answers,         *)
(* last_quiz_result], for the user action ev that caused it.                *)

NoneAns == "None"

Text(sym) == Run(sym, 1)

\* A response or failure message of ask_model as a string of the session.
RECURSIVE AsText(_)
AsText(toks) == IF toks = <<>> THEN <<>> ELSE RCat(Text(Head(toks)), AsText(Tail(toks)))

Turn(role, text) == [role |-> Text(role), text |-> text]

\* The session after "Reset sesi" popped the four keys and the setdefault
\* calls of the run that follows filled them in again.
ResetKeys(s) ==
    [s EXCEPT !.messages = <<>>, !.kb_text = <<>>, !.quiz = <<>>, !.quiz_answers = <<>>]

\* The chat tab: "Index ke KB", and the chat input.
ChatTab(s, ev, key, pdf) ==
    CASE ev.kind = "index" -> [s EXCEPT !.kb_text = build_kb_text(ev.files, ev.pasted, pdf)]
      [] ev.kind = "chat"  ->
            LET withUser == Append(s.messages, Turn("user", ev.input))
            IN  IF ~key THEN [s EXCEPT !.messages = withUser]
                ELSE [s EXCEPT !.messages =
                        Append(withUser, Turn("assistant", AsText(ask_model(ev.outcome).val)))]
      [] OTHER -> s

\* st.radio(..., item["a"], key="mcq_i", index=None): the selection the widget
\* holds when the last run drew a radio with this key and these options, None
\* for a widget drawn for the first time.
RadioValue(rad, i, opts) ==
    IF i <= Len(rad) /\ rad[i].opts = opts THEN rad[i].sel ELSE NoneAns

\* The rows and the score of "Kumpulkan Jawaban".
GradeRow(item, i, user_ans) ==
    LET correct == item.a[item.key.val + 1]
    IN  [no |-> i, question |-> Text(item.q),
         answer |-> IF user_ans = NoneAns THEN <<>> ELSE Text(user_ans),
         correct |-> Text(correct), is_correct |-> (user_ans = correct)]

Grade(qz, answers) ==
    LET graded == [i \in 1..Len(qz) |-> GradeRow(qz[i], i, answers[i])]
        benar  == Cardinality({i \in 1..Len(qz) : graded[i].is_correct})
    IN  [score |-> (100 * benar) \div Len(qz), rows |-> graded, created_at |-> Text("now")]

\* The radios of the quiz, as the loop draws them.
QuizRadios(s, rad) ==
    [i \in 1..Len(s.quiz) |-> [opts |-> s.quiz[i].a, sel |-> RadioValue(rad, i, s.quiz[i].a)]]

\* quiz_answers[key] = st.radio(...) for every item of the quiz.
QuizAnswered(s, drawn) ==
    [s EXCEPT !.quiz_answers =
        [i \in 1..Max(Len(drawn), Len(s.quiz_answers)) |->
            IF i <= Len(drawn) THEN drawn[i].sel ELSE s.quiz_answers[i]]]

\* "Kumpulkan Jawaban" below the radios.
QuizGraded(s, ev) ==
    IF ev.kind = "submit"
    THEN [s EXCEPT !.last_quiz_result = Grade(s.quiz, s.quiz_answers)]
    ELSE s

\* "if quiz:" and what it guards.
QuizDrawn(s, ev, rad) ==
    IF s.quiz = <<>> THEN [s |-> s, radios |-> <<>>]
    ELSE [s |-> QuizGraded(QuizAnswered(s, QuizRadios(s, rad)), ev),
          radios |-> QuizRadios(s, rad)]

\* The quiz tab: nothing without an API key or a knowledge base; else the
\* "Generate 5 soal MCQ" button, the radios of the quiz, and "Kumpulkan
\* Jawaban".
QuizTab(s, ev, key, rad) ==
    IF ~key \/ s.kb_text = <<>> THEN [s |-> s, radios |-> <<>>]
    ELSE QuizDrawn(IF ev.kind = "generate"
                   THEN [s EXCEPT !.quiz = gen_mcq(ev.outcome, 5).val, !.quiz_answers = <<>>]
                   ELSE s,
                   ev, rad)

\* The dict written to the JSON download button.
ExportDump(s) ==
    [messages |-> s.messages, kb_text |-> s.kb_text, last_quiz_result |-> s.last_quiz_result]

ImportBlockClearsFirst(s, upfile) ==
    IF upfile = NoFile THEN [s |-> s, msg |-> "none"]
    ELSE LET data == LoadsDoc(upfile)
         IN  IF data.raised \/ ~data.val.isDict
             THEN [s |-> [s EXCEPT !.messages = <<>>], msg |-> "error"]
             ELSE [s |-> [s EXCEPT !.messages = DictGet(data.val.v, "messages", <<>>),
                                   !.kb_text = DictGet(data.val.v, "kb_text", <<>>)],
                   msg |-> "success"]

\* The import block: nothing without a file; an error message when the file
\* does not decode, does not parse, or is no dict (data.get raises before the
\* first assignment); else the three assignments.
ImportBlock(s, upfile) ==
    IF upfile = NoFile THEN [s |-> s, msg |-> "none"]
    ELSE LET data == LoadsDoc(upfile)
         IN  IF data.raised \/ ~data.val.isDict THEN [s |-> s, msg |-> "error"]
             ELSE LET d  == data.val.v
                      s1 == [s EXCEPT !.messages = DictGet(d, "messages", <<>>),
                                      !.kb_text = DictGet(d, "kb_text", <<>>)]
                      s2 == IF Truthy(DictGet(d, "last_quiz_result", PyNone))
                            THEN [s1 EXCEPT !.last_quiz_result = d.last_quiz_result]
                            ELSE s1
                  IN  [s |-> s2, msg |-> "success"]

\* The export tab: the dump of the session as the tabs before left it, then
\* the import block.
ExportTab(q, im) ==
    [s |-> im.s, radios |-> q.radios, dump |-> ExportDump(q.s), importMsg |-> im.msg]

ScriptEnd(q, upfile) == ExportTab(q, ImportBlock(q.s, upfile))

\* One run of the script.
Script(s, ev, key, upfile, rad, pdf) ==
    ScriptEnd(QuizTab(ChatTab(IF ev.kind = "reset" THEN ResetKeys(s) ELSE s, ev, key, pdf),
                      ev, key, rad),
              upfile)

-----------------------------------------------------------------------------
(* Specification Spec: the session, one action per user action, each a full *)
(* run of the script.                                                       *)

Session ==
    [messages |-> messages, kb_text |-> kb_text, quiz |-> quiz,
     quiz_answers |-> quiz_answers, last_quiz_result |-> last_quiz_result]

HasAnswer(answers) == \E i \in 1..Len(answers) : answers[i] # NoneAns

\* The session and the widgets after a run that ended as r, with the API key
\* field and the import uploader as the user action left them.
Ran(r, ev, key, upfile) ==
    /\ messages' = r.s.messages
    /\ kb_text' = r.s.kb_text
    /\ quiz' = r.s.quiz
    /\ quiz_answers' = r.s.quiz_answers
    /\ last_quiz_result' = r.s.last_quiz_result
    /\ radios' = r.radios
    /\ dump' = r.dump
    /\ importMsg' = r.importMsg
    /\ api_key' = key
    /\ up' = upfile
    /\ run' = ev
    /\ UNCHANGED <<genVars, kbVars, csvVars>>

\* A run of the script for the user action ev, on the radios as the user
\* action left them.
Rerun(ev, key, upfile, rad) == Ran(Script(Session, ev, key, upfile, rad, pdfOk), ev, key, upfile)

Ev(kind) == [kind |-> kind]

ChatInputs == {RCat(Run("a", 1), RCat(Run("\"", 1), Run("\n", 2)))}
ChatOutcomes == {[kind |-> "text", body |-> <<"x">>], [kind |-> "error", body |-> <<"x">>]}
QuizOutcomes ==
    {[kind |-> "text", body |-> <<"[", "G", "]">>],
     [kind |-> "text", body |-> <<"x", "[", "H", ",", "G", "]">>],
     [kind |-> "error", body |-> <<"x">>]}
PickedOptions == {"A", "B", "P"}
KbInputs ==
    {[files |-> <<>>, pasted |-> Run(" ", 1)],
     [files |-> <<[ext |-> "txt", text |-> Para(500), ok |-> TRUE]>>,
      pasted |-> RCat(Run(" ", 1), Para(1300))]}

\* A quiz result as another session graded it.
OtherResult ==
    [score |-> 50,
     rows |-> <<[no |-> 1, question |-> Text("Q1"), answer |-> Text("A"),
                 correct |-> Text("A"), is_correct |-> TRUE],
                [no |-> 2, question |-> Text("Q2"), answer |-> <<>>,
                 correct |-> Text("R"), is_correct |-> FALSE]>>,
     created_at |-> Text("then")]

\* Files for the import uploader that no export of this session wrote.
OtherDocs ==
    {[kind |-> "binary"], [kind |-> "text"],
     JsonDoc(JArr(<<>>)),
     JsonDoc(JObj([messages |-> JArr(<<JTurn(Turn("user", Run("b", 1)))>>),
                   last_quiz_result |-> JResult(OtherResult)])),
     JsonDoc(JObj([kb_text |-> JStr(Para(7)), last_quiz_result |-> JObj(<<>>)]))}

InitSession ==
    /\ messages = <<>>
    /\ kb_text = <<>>
    /\ quiz = <<>>
    /\ quiz_answers = <<>>
    /\ last_quiz_result = PyNone
    /\ api_key = FALSE
    /\ radios = <<>>
    /\ up = NoFile
    /\ dump = [messages |-> <<>>, kb_text |-> <<>>, last_quiz_result |-> PyNone]
    /\ saved = NoFile
    /\ exported = [messages |-> <<>>, kb_text |-> <<>>, last_quiz_result |-> PyNone]
    /\ importMsg = "none"
    /\ run = Ev("load")

\* The user fills in or clears the API key field.
SetApiKey ==
    /\ Rerun(Ev("apikey"), ~api_key, up, radios)
    /\ UNCHANGED <<saved, exported>>

\* The user changes a widget that no block of the script reads by itself
\* (the temperature slider, the model select box).
OtherWidget ==
    /\ Rerun(Ev("rerun"), api_key, up, radios)
    /\ UNCHANGED <<saved, exported>>

ResetSession ==
    /\ Rerun(Ev("reset"), api_key, up, radios)
    /\ UNCHANGED <<saved, exported>>

IndexToKb(fs, p) ==
    /\ Rerun([kind |-> "index", files |-> fs, pasted |-> p], api_key, up, radios)
    /\ UNCHANGED <<saved, exported>>

SendChat(input, oc) ==
    /\ Len(messages) + 2 <= MaxMsgs
    /\ Rerun([kind |-> "chat", input |-> input, outcome |-> oc], api_key, up, radios)
    /\ UNCHANGED <<saved, exported>>

GenerateQuiz(oc) ==
    /\ api_key /\ kb_text # <<>>
    /\ Rerun([kind |-> "generate", outcome |-> oc], api_key, up, radios)
    /\ UNCHANGED <<saved, exported>>

SelectAnswer(i, opt) ==
    /\ i \in 1..Len(radios)
    /\ opt \in {radios[i].opts[j] : j \in 1..Len(radios[i].opts)}
    /\ opt # radios[i].sel
    /\ Rerun(Ev("select"), api_key, up, [radios EXCEPT ![i].sel = opt])
    /\ UNCHANGED <<saved, exported>>

SubmitAnswers ==
    /\ api_key /\ kb_text # <<>> /\ quiz # <<>>
    /\ Rerun(Ev("submit"), api_key, up, radios)
    /\ UNCHANGED <<saved, exported>>

\* "Download Memory+KB (JSON)": the user gets the bytes the last run wrote.
\* The session is followed with one downloaded file, its first.
DownloadJson ==
    /\ saved = NoFile
    /\ saved' = JsonDumps(dump)
    /\ exported' = dump
    /\ Rerun(Ev("download"), api_key, up, radios)

\* The user puts a file into the import uploader.
UploadImport(doc) ==
    /\ doc # up
    /\ Rerun(Ev("upload"), api_key, doc, radios)
    /\ UNCHANGED <<saved, exported>>

\* The user puts the file of the JSON download into the import uploader.
UploadSaved ==
    /\ saved # NoFile
    /\ UploadImport(saved)

RemoveImport ==
    /\ up # NoFile
    /\ Rerun(Ev("remove"), api_key, NoFile, radios)
    /\ UNCHANGED <<saved, exported>>

-----------------------------------------------------------------------------
(* Specifications *)

NextGen ==
    \/ \E t \in Tokens : Emit(t)
    \/ \E n \in 0..MaxN : CallGenMcq(n)

InitSpecGen == InitGen /\ InitKbIdle /\ InitCsvIdle /\ InitSession

SpecGen == InitSpecGen /\ [][NextGen]_vars

NextKb ==
    \/ \E f \in UploadableFiles : Upload(f)
    \/ \E t \in PastedTexts : Paste(t)
    \/ IndexKb

InitSpecKb == InitKb /\ InitGenIdle /\ InitCsvIdle /\ InitSession

SpecKb == InitSpecKb /\ [][NextKb]_vars

NextCsv ==
    \/ \E role \in {"user", "assistant"}, t \in CsvTexts : AddRow(role, t)
    \/ MakeCsv

InitSpecCsv == InitCsv /\ InitGenIdle /\ InitKbIdle /\ InitSession

SpecCsv == InitSpecCsv /\ [][NextCsv]_vars

NextQuiz ==
    \/ SetApiKey
    \/ OtherWidget
    \/ ResetSession
    \/ \E kb \in KbInputs : IndexToKb(kb.files, kb.pasted)
    \/ \E oc \in QuizOutcomes : GenerateQuiz(oc)
    \/ \E i \in 1..MaxQuiz, opt \in PickedOptions : SelectAnswer(i, opt)
    \/ SubmitAnswers

InitSpecQuiz == InitSession /\ InitGenIdle /\ InitKbIdle /\ InitCsvIdle

SpecQuiz == InitSpecQuiz /\ [][NextQuiz]_vars

Next ==
    \/ SetApiKey
    \/ OtherWidget
    \/ ResetSession
    \/ \E kb \in KbInputs : IndexToKb(kb.files, kb.pasted)
    \/ \E input \in ChatInputs, oc \in ChatOutcomes : SendChat(input, oc)
    \/ DownloadJson
    \/ \E doc \in OtherDocs : UploadImport(doc)
    \/ UploadSaved
    \/ RemoveImport

Init == InitSession /\ InitGenIdle /\ InitKbIdle /\ InitCsvIdle

Spec == Init /\ [][Next]_vars

-----------------------------------------------------------------------------
(* Properties of build_kb_text, checked under SpecKb *)

\* C1: the string build_kb_text returns has at most 25,000 characters.
C1_OutputWithinLimit ==
    kbpc = "done" => RLen(kbOut) <= Limit

-----------------------------------------------------------------------------
(* Properties of make_csv_bytes, checked under SpecCsv *)

\* A field as RFC 4180 writes it: quotes doubled, and the field wrapped in
\* quotes when it holds a comma, a line break or a quote.
Rfc4180Field(x) ==
    IF RContains(x, ",") \/ RContains(x, "\n") \/ RContains(x, "\"")
    THEN Quoted(Doubled(x, "\""))
    ELSE x

\* C7: every value that holds a comma, a line break or a double quote is
\* written wrapped in double quotes with its quotes doubled (every other
\* value as it is).
C7_QuoteIsDoubledAndQuoted ==
    (csvpc = "done" /\ rows # <<>>) =>
        csvOut = RJoin(Run("\n", 1),
                       <<RJoin(Run(",", 1), <<Run("role", 1), Run("text", 1)>>)>>
                       \o [i \in 1..Len(rows) |->
                             RJoin(Run(",", 1), <<Rfc4180Field(RowGet(rows[i], "role")),
                                                  Rfc4180Field(RowGet(rows[i], "text"))>>)])

-----------------------------------------------------------------------------
(* Properties of ask_model and gen_mcq, checked under SpecGen *)

IsPrefix(s, t) == Len(s) <= Len(t) /\ SubSeq(t, 1, Len(s)) = s

\* The text between the first "[" and the last "]" of raw is a well-formed
\* JSON array.
HasArray(raw) ==
    \E i \in 1..Len(raw) : \E j \in i..Len(raw) :
        /\ raw[i] = "[" /\ \A k \in 1..(i - 1) : raw[k] # "["
        /\ raw[j] = "]" /\ \A k \in (j + 1)..Len(raw) : raw[k] # "]"
        /\ JsonLoads(SubSeq(raw, i, j)).ok

ArrayElems(raw) ==
    LET i == CHOOSE i \in 1..Len(raw) : raw[i] = "[" /\ \A k \in 1..(i - 1) : raw[k] # "["
        j == CHOOSE j \in 1..Len(raw) : raw[j] = "]" /\ \A k \in (j + 1)..Len(raw) : raw[k] # "]"
    IN  JsonLoads(SubSeq(raw, i, j)).elems

\* An element passes every check of the validation.
PassesAll(v) ==
    /\ v.isDict
    /\ {"q", "a", "key"} \subseteq v.fields
    /\ Len(v.a) >= 4
    /\ v.key.kind \in {"int", "intstr"}

Normalized(v) == [q |-> v.q, a |-> SubSeq(v.a, 1, 4), key |-> PyVal("int", v.key.val)]

RECURSIVE MapNormalized(_)
MapNormalized(s) ==
    IF s = <<>> THEN <<>> ELSE <<Normalized(Head(s))>> \o MapNormalized(Tail(s))

FirstN(s, n) == SubSeq(s, 1, Min(n, Len(s)))

\* C2: gen_mcq returns at most n items, and every item it returns has exactly
\* 4 options and an integer correct-index.
C2_AtMostNWellFormed ==
    gpc = "done" =>
        /\ ~mcq.raised
        /\ Len(mcq.val) <= mcqN
        /\ \A i \in 1..Len(mcq.val) :
              /\ Len(mcq.val[i].a) = 4
              /\ mcq.val[i].key.kind = "int"

\* The response [H,G] with n = 1: H has five options and the key "2", and the
\* second accepted element is cut off.
C2_Witness ==
    /\ gpc = "done"
    /\ outcome.kind = "text"
    /\ outcome.body = <<"[", "H", ",", "G", "]">>
    /\ mcqN = 1
    /\ Len(mcq.val) = 1

\* C3: when the response holds a well-formed JSON array, every element is
\* validated on its own: gen_mcq returns the first n of the elements that pass
\* all checks, normalized, in their order; the others are dropped.
C3_PerElementValidation ==
    (gpc = "done" /\ HasArray(asked.val)) =>
        mcq = Returned(FirstN(MapNormalized(SelectSeq(ArrayElems(asked.val), PassesAll)), mcqN))

\* C4: a response with no well-formed JSON array gives the empty sequence, and
\* no exception.
C4_NoArrayGivesEmpty ==
    (gpc = "done" /\ ~HasArray(asked.val)) => mcq = Returned(<<>>)

\* The failure message of ask_model with brackets in the error detail that do
\* not enclose well-formed JSON.
C4_Witness ==
    /\ gpc = "done"
    /\ outcome.kind = "error"
    /\ \E i \in 1..Len(asked.val) : asked.val[i] = "["
    /\ \E i \in 1..Len(asked.val) : asked.val[i] = "]"
    /\ ~HasArray(asked.val)
    /\ mcq = Returned(<<>>)

-----------------------------------------------------------------------------
(* Properties of the import block and the export dump, checked under Spec  *)

\* C5: whenever the import block reports an error, messages, kb_text and
\* last_quiz_result are what they were when the run reached the block (the
\* values the run wrote to the export dump just before it).
C5_ImportErrorLeavesSession ==
    importMsg = "error" =>
        /\ messages = dump.messages
        /\ kb_text = dump.kb_text
        /\ last_quiz_result = dump.last_quiz_result

\* An import of a file that is no JSON object into a session that holds
\* turns, a knowledge base and a quiz result.
C5_Witness ==
    /\ importMsg = "error"
    /\ run.kind = "upload"
    /\ up \in {[kind |-> "binary"], [kind |-> "text"], JsonDoc(JArr(<<>>))}
    /\ messages # <<>>
    /\ kb_text # <<>>
    /\ last_quiz_result # PyNone

\* C6: with the file of the JSON download in the import uploader, the import
\* succeeds, messages and kb_text are the exported ones, and when the export
\* held a quiz result, last_quiz_result has its score and its number of rows.
C6_ExportImportRoundTrip ==
    (saved # NoFile /\ up = saved) =>
        /\ importMsg = "success"
        /\ messages = exported.messages
        /\ kb_text = exported.kb_text
        /\ exported.last_quiz_result # PyNone =>
              /\ last_quiz_result.score = exported.last_quiz_result.score
              /\ Len(last_quiz_result.rows) = Len(exported.last_quiz_result.rows)

\* The export of a session with an answered turn whose text has a quote and
\* newlines, a knowledge base and a quiz result, imported over a session
\* whose turns differ from it.
C6_Witness ==
    /\ saved # NoFile
    /\ up = saved
    /\ run.kind = "upload"
    /\ Len(exported.messages) = 2
    /\ exported.kb_text # <<>>
    /\ exported.last_quiz_result # PyNone
    /\ dump.messages # exported.messages
    /\ messages = exported.messages

\* C10: a run for a chat send, an index, a generate, a submit, a download or
\* another widget (the import file, if any, still in the uploader) leaves the
\* messages it found as a prefix of the messages it leaves, and the turn a
\* chat send appends is in the messages after the run.
ListedRuns == {"chat", "index", "generate", "submit", "download", "rerun"}

C10_MessagesAppendOnly ==
    [][run'.kind \in ListedRuns =>
          /\ IsPrefix(messages, messages')
          /\ run'.kind = "chat" =>
                IsPrefix(Append(messages, Turn("user", run'.input)), messages')]_vars

-----------------------------------------------------------------------------
(* Properties of the quiz tab, checked under SpecQuiz *)

\* C8: a run for "Generate 5 soal MCQ" on a session that holds a quiz with a
\* recorded answer leaves the newly generated quiz, and no recorded answer.
C8_RegenerateClearsAnswers ==
    [][(run'.kind = "generate" /\ quiz # <<>> /\ HasAnswer(quiz_answers)) =>
          /\ quiz' = gen_mcq(run'.outcome, 5).val
          /\ \A i \in 1..Len(quiz_answers') : quiz_answers'[i] = NoneAns]_vars

=============================================================================
